---- MODULE Spec2Model ----
(***************************************************************************)
(* A small-step model of src/design_patterns/factory_design_principle.ts:  *)
(* the Factory Method example with the products WelcomeMailTemplate and    *)
(* NewsLetterMailTemplate, the creators WelcomeMailGenerator and           *)
(* NewsLetterMailGenerator, the shared Mailer.sendMail, the client routine *)
(* clientCode and the top-level entry sequence.                            *)
(*                                                                         *)
(* The program is sequential.  Its state is the call stack, the value      *)
(* register of the last return, standard output and the position in the    *)
(* top-level script.  The class table is a variable so that the unchanged  *)
(* Mailer.sendMail and clientCode can be run against the table of the      *)
(* source and against tables extended with further subclasses.  The        *)
(* top-level script is either the entry sequence of the source or a driver *)
(* that issues, in any order, calls of the public operations.              *)
(***************************************************************************)
EXTENDS Naturals, Sequences, FiniteSets, TLC

VARIABLES
  classes,   \* the class table: product texts and creator -> product bindings
  main,      \* "entry": the script of lines 79-81; "driver": any call order
  ip,        \* index of the next top-level statement
  stack,     \* call stack, a sequence of frames, top last
  ret,       \* value of the last completed call
  stdout,    \* standard output: completed lines and the unterminated tail
  err,       \* "none", or the uncaught error that ended the program
  nextId,    \* identity given to the next constructed object
  trace      \* history of calls, returns, writes and throws

vars == <<classes, main, ip, stack, ret, stdout, err, nextId, trace>>

(***************************************************************************)
(* Bounds                                                                  *)
(***************************************************************************)
\* number of top-level statements the driver issues
MaxStatements == 3

(***************************************************************************)
(* Values: undefined, strings and objects (a class and an identity; the    *)
(* classes of the source declare no fields).                               *)
(***************************************************************************)
Undefined == [tag |-> "undefined", class |-> "", id |-> 0, text |-> ""]

Str(s) == [tag |-> "string", class |-> "", id |-> 0, text |-> s]

Obj(c, n) == [tag |-> "object", class |-> c, id |-> n, text |-> ""]

(***************************************************************************)
(* The classes of the source.                                              *)
(***************************************************************************)
\* WelcomeMailTemplate.generate, line 19
WelcomeMailTemplate_generate == "Welcome aboard! Thanks for signing up!"

\* NewsLetterMailTemplate.generate, line 25
NewsLetterMailTemplate_generate == "Please enjoy our newsletter!"

\* the body of each product class's generate()
SourceProducts ==
  [WelcomeMailTemplate |-> WelcomeMailTemplate_generate,
   NewsLetterMailTemplate |-> NewsLetterMailTemplate_generate]

\* the class each creator's generateMailTemplate() instantiates
SourceCreators ==
  [WelcomeMailGenerator |-> "WelcomeMailTemplate",
   NewsLetterMailGenerator |-> "NewsLetterMailTemplate"]

SourceClasses == [products |-> SourceProducts, creators |-> SourceCreators]

(***************************************************************************)
(* Extensions of the class table by new code only: a new product/creator   *)
(* pair, and a new creator bound to an existing product.                   *)
(***************************************************************************)
NewPairText == "Sorry to see you go!"

WithNewPair ==
  [products |-> ("GoodbyeMailTemplate" :> NewPairText) @@ SourceProducts,
   creators |-> ("GoodbyeMailGenerator" :> "GoodbyeMailTemplate") @@ SourceCreators]

WithNewCreator ==
  [products |-> SourceProducts,
   creators |-> ("PromoMailGenerator" :> "WelcomeMailTemplate") @@ SourceCreators]

ClassTables == {SourceClasses, WithNewPair, WithNewCreator}

(***************************************************************************)
(* Top-level statements.                                                   *)
(***************************************************************************)
\* clientCode(new C())
ClientStmt(c) == [op |-> "clientCode", class |-> c, text |-> ""]

\* console.log(t)
LogStmt(t) == [op |-> "console.log", class |-> "", text |-> t]

\* new C().m(), the result discarded
CallStmt(m, c) == [op |-> m, class |-> c, text |-> ""]

Divider == "---"

\* a variant of the script with the two invocations in the other order
EntrySequence_Swapped ==
  << ClientStmt("NewsLetterMailGenerator"),
     LogStmt(Divider),
     ClientStmt("WelcomeMailGenerator") >>

\* lines 79-81
EntrySequence ==
  << ClientStmt("WelcomeMailGenerator"),
     LogStmt(Divider),
     ClientStmt("NewsLetterMailGenerator") >>

\* what a driver written against the class table may issue
DriverStatements ==
  {ClientStmt(c) : c \in DOMAIN classes.creators}
    \cup {LogStmt(Divider)}
    \cup {CallStmt("sendMail", c) : c \in DOMAIN classes.creators}
    \cup {CallStmt("generate", p) : p \in DOMAIN classes.products}

\* the statements that may run next at top level
CurrentStatements ==
  IF main = "entry"
  THEN IF ip <= Len(EntrySequence) THEN {EntrySequence[ip]} ELSE {}
  ELSE IF ip <= MaxStatements THEN DriverStatements ELSE {}

(***************************************************************************)
(* Pure parts of the operations.                                           *)
(***************************************************************************)
\* a variant that writes the text without the newline
ConsoleLog_NoNewline(out, s) == [lines |-> out.lines, tail |-> out.tail \o s]

\* a variant that writes an empty line after the text
ConsoleLog_ExtraLine(out, s) ==
  [lines |-> out.lines \o << out.tail \o s, "" >>, tail |-> ""]

\* console.log(s): the text and a newline, which completes the line
ConsoleLog(out, s) == [lines |-> Append(out.lines, out.tail \o s), tail |-> ""]

\* a variant of the template literal without its prefix
sendMailResult_NoPrefix(text) == text

\* a variant whose text also depends on the creator it is called on
sendMailResult_ByCreator(text) == stack[Len(stack)].self.class \o " : " \o text

\* the template literal of line 46
sendMailResult(text) == "Sending the following mail : " \o text

\* a variant whose text depends on the calls made before
generateResult_Stateful(self) ==
  IF \E k \in DOMAIN trace : trace[k].ev = "ret" /\ trace[k].fn = "generate"
  THEN classes.products[self.class] \o "!"
  ELSE classes.products[self.class]

\* the text returned by generate() of the receiver's class, lines 18-20, 24-26
generateResult(self) == classes.products[self.class]

\* a variant that decides by the creator's name instead of by override
generateMailTemplateClass_Switch(self) ==
  IF self.class = "NewsLetterMailGenerator"
  THEN "NewsLetterMailTemplate"
  ELSE "WelcomeMailTemplate"

\* the class instantiated by the receiver's generateMailTemplate()
generateMailTemplateClass(self) == classes.creators[self.class]

\* new C(): a fresh object
New(c) == Obj(c, nextId)

\* a variant that hands out one shared product per class
generateMailTemplateResult_Cached(self) == Obj(generateMailTemplateClass(self), 0)

\* a variant that forgets to return the product
generateMailTemplateResult_Undefined(self) == Undefined

\* return new WelcomeMailTemplate() / new NewsLetterMailTemplate(), lines 56, 62
generateMailTemplateResult(self) == New(generateMailTemplateClass(self))

\* method lookup: whether the value has a method m
HasMethod(v, m) ==
  /\ v.tag = "object"
  /\ \/ m = "generate" /\ v.class \in DOMAIN classes.products
     \/ m \in {"sendMail", "generateMailTemplate"}
          /\ v.class \in DOMAIN classes.creators

(***************************************************************************)
(* Stack frames and the history.                                           *)
(***************************************************************************)
Frame(fn, self, mailer) ==
  [fn |-> fn, self |-> self, mailer |-> mailer,
   mailTemplate |-> Undefined, pc |-> 1]

Event(ev, fn, self, val, depth, out) ==
  [ev |-> ev, fn |-> fn, self |-> self, val |-> val, depth |-> depth, out |-> out]

Top == stack[Len(stack)]

Running(fn, pc) ==
  /\ err = "none"
  /\ stack # << >>
  /\ Top.fn = fn
  /\ Top.pc = pc

\* the stack with the top frame changed
WithTop(f) == [stack EXCEPT ![Len(stack)] = f]

\* recv.m() from the caller's stack `callers`: a frame is pushed, or the
\* lookup fails with a TypeError that nothing catches
Invoke(callers, recv, m) ==
  IF HasMethod(recv, m)
  THEN /\ stack' = Append(callers, Frame(m, recv, Undefined))
       /\ trace' = Append(trace,
                     Event("call", m, recv, Undefined, Len(callers) + 1, stdout))
       /\ err' = err
  ELSE /\ stack' = << >>
       /\ trace' = Append(trace,
                     Event("throw", m, recv, Undefined, Len(callers) + 1, stdout))
       /\ err' = "TypeError"

\* return v from the top frame; back at top level the statement is over
Return(v, events) ==
  /\ stack' = SubSeq(stack, 1, Len(stack) - 1)
  /\ ret' = v
  /\ ip' = IF Len(stack) = 1 THEN ip + 1 ELSE ip
  /\ trace' = trace \o events

(***************************************************************************)
(* Init                                                                    *)
(***************************************************************************)
Init ==
  /\ classes \in ClassTables
  /\ main \in {"entry", "driver"}
  /\ ip = 1
  /\ stack = << >>
  /\ ret = Undefined
  /\ stdout = [lines |-> << >>, tail |-> ""]
  /\ err = "none"
  /\ nextId = 1
  /\ trace = << >>

(***************************************************************************)
(* Top-level statements                                                    *)
(***************************************************************************)
\* clientCode(new C()), lines 79 and 81
main_clientCode ==
  /\ err = "none"
  /\ stack = << >>
  /\ \E s \in CurrentStatements :
       /\ s.op = "clientCode"
       /\ stack' = << Frame("clientCode", Undefined, New(s.class)) >>
       /\ trace' = Append(trace,
                     Event("call", "clientCode", Undefined, New(s.class), 1, stdout))
  /\ nextId' = nextId + 1
  /\ UNCHANGED <<classes, main, ip, ret, stdout, err>>

\* console.log("---"), line 80
main_log ==
  /\ err = "none"
  /\ stack = << >>
  /\ \E s \in CurrentStatements :
       /\ s.op = "console.log"
       /\ stdout' = ConsoleLog(stdout, s.text)
       /\ trace' = Append(trace,
                     Event("write", "main", Undefined, Str(s.text), 0,
                           ConsoleLog(stdout, s.text)))
  /\ ip' = ip + 1
  /\ UNCHANGED <<classes, main, stack, ret, err, nextId>>

\* new C().m() issued by the driver
driver_call ==
  /\ err = "none"
  /\ stack = << >>
  /\ \E s \in CurrentStatements :
       /\ s.op \in {"sendMail", "generate"}
       /\ Invoke(<< >>, New(s.class), s.op)
  /\ nextId' = nextId + 1
  /\ UNCHANGED <<classes, main, ip, ret, stdout>>

(***************************************************************************)
(* clientCode, lines 71-73                                                 *)
(***************************************************************************)
\* the call mailer.sendMail() of line 72
clientCode_sendMail ==
  /\ Running("clientCode", 1)
  /\ Invoke(WithTop([Top EXCEPT !.pc = 2]), Top.mailer, "sendMail")
  /\ UNCHANGED <<classes, main, ip, ret, stdout, nextId>>

\* console.log(...) of line 72 and the return
clientCode_log ==
  /\ Running("clientCode", 2)
  /\ stdout' = ConsoleLog(stdout, ret.text)
  /\ Return(Undefined,
       << Event("write", "clientCode", Undefined, ret, Len(stack),
                ConsoleLog(stdout, ret.text)),
          Event("ret", "clientCode", Undefined, Undefined, Len(stack),
                ConsoleLog(stdout, ret.text)) >>)
  /\ UNCHANGED <<classes, main, err, nextId>>

(***************************************************************************)
(* Mailer.sendMail, lines 44-47                                            *)
(***************************************************************************)
\* this.generateMailTemplate() of line 45
sendMail_generateMailTemplate ==
  /\ Running("sendMail", 1)
  /\ Invoke(WithTop([Top EXCEPT !.pc = 2]), Top.self, "generateMailTemplate")
  /\ UNCHANGED <<classes, main, ip, ret, stdout, nextId>>

\* const mailTemplate = ...; mailTemplate.generate() of line 46
sendMail_generate ==
  /\ Running("sendMail", 2)
  /\ Invoke(WithTop([Top EXCEPT !.mailTemplate = ret, !.pc = 3]), ret, "generate")
  /\ UNCHANGED <<classes, main, ip, ret, stdout, nextId>>

\* return `Sending the following mail : ${...}` of line 46
sendMail_return ==
  /\ Running("sendMail", 3)
  /\ Return(Str(sendMailResult(ret.text)),
       << Event("ret", "sendMail", Top.self, Str(sendMailResult(ret.text)),
                Len(stack), stdout) >>)
  /\ UNCHANGED <<classes, main, stdout, err, nextId>>

(***************************************************************************)
(* The factory methods, lines 55-57 and 61-63                              *)
(***************************************************************************)
generateMailTemplate ==
  /\ Running("generateMailTemplate", 1)
  /\ Return(generateMailTemplateResult(Top.self),
       << Event("ret", "generateMailTemplate", Top.self,
                generateMailTemplateResult(Top.self), Len(stack), stdout) >>)
  /\ nextId' = nextId + 1
  /\ UNCHANGED <<classes, main, stdout, err>>

(***************************************************************************)
(* The products' generate, lines 18-20 and 24-26                           *)
(***************************************************************************)
\* a variant that also logs the text it returns
generate_Logging ==
  /\ Running("generate", 1)
  /\ stdout' = ConsoleLog(stdout, generateResult(Top.self))
  /\ Return(Str(generateResult(Top.self)),
       << Event("ret", "generate", Top.self, Str(generateResult(Top.self)),
                Len(stack), stdout) >>)
  /\ UNCHANGED <<classes, main, err, nextId>>

generate ==
  /\ Running("generate", 1)
  /\ Return(Str(generateResult(Top.self)),
       << Event("ret", "generate", Top.self, Str(generateResult(Top.self)),
                Len(stack), stdout) >>)
  /\ UNCHANGED <<classes, main, stdout, err, nextId>>

(***************************************************************************)
(* Specification                                                           *)
(***************************************************************************)
Next ==
  \/ main_clientCode
  \/ main_log
  \/ driver_call
  \/ clientCode_sendMail
  \/ clientCode_log
  \/ sendMail_generateMailTemplate
  \/ sendMail_generate
  \/ sendMail_return
  \/ generateMailTemplate
  \/ generate

Spec == Init /\ [][Next]_vars

\* the program is one sequential thread: a step that can be taken is taken
FairSpec == Spec /\ WF_vars(Next)

(***************************************************************************)
(* Reading the history.                                                    *)
(***************************************************************************)
Min(S) == CHOOSE x \in S : \A y \in S : x <= y

\* the program has run to completion
Terminated ==
  /\ err = "none"
  /\ stack = << >>
  /\ CurrentStatements = {}

\* the indices of the calls of fn
Calls(fn) == {i \in DOMAIN trace : trace[i].ev = "call" /\ trace[i].fn = fn}

\* the index of the return of the call at i, or Len(trace) + 1 while it runs
RetOf(i) ==
  LET S == {j \in (i + 1)..Len(trace) :
              trace[j].ev = "ret" /\ trace[j].depth = trace[i].depth}
  IN  IF S = {} THEN Len(trace) + 1 ELSE Min(S)

Completed(i) == RetOf(i) <= Len(trace)

\* the calls and returns made directly by the invocation called at i
Direct(i) ==
  LET IsDirect(e) == e.ev \in {"call", "ret"} /\ e.depth = trace[i].depth + 1
  IN  SelectSeq(SubSeq(trace, i + 1, RetOf(i) - 1), IsDirect)

\* the lines the invocation called at i wrote itself
Written(i) ==
  LET IsWrite(e) == e.ev = "write" /\ e.depth = trace[i].depth
  IN  SelectSeq(SubSeq(trace, i + 1, RetOf(i) - 1), IsWrite)

IsPrefix(s, t) == Len(s) <= Len(t) /\ s = SubSeq(t, 1, Len(s))

\* event k mentions the object with identity id
Mentions(k, id) ==
  \/ trace[k].self.tag = "object" /\ trace[k].self.id = id
  \/ trace[k].val.tag = "object" /\ trace[k].val.id = id

(***************************************************************************)
(* The texts the properties name.                                          *)
(***************************************************************************)
WelcomeLine == "Sending the following mail : Welcome aboard! Thanks for signing up!"

NewsLetterLine == "Sending the following mail : Please enjoy our newsletter!"

ExpectedOutput == << WelcomeLine, "---", NewsLetterLine >>

(***************************************************************************)
(* C1: the entry sequence, run from an empty standard output, only ever    *)
(* has a prefix of the three lines welcome message, divider, newsletter    *)
(* message on standard output, each line complete, and once it has run to  *)
(* completion standard output is exactly these three lines.                *)
(***************************************************************************)
C1_EntrySequenceOutput ==
  main = "entry" =>
    /\ IsPrefix(stdout.lines, ExpectedOutput)
    /\ stdout.tail = ""
    /\ CurrentStatements = {} => stdout.lines = ExpectedOutput

C1_Witness ==
  /\ main = "entry"
  /\ Terminated
  /\ ip = 4
  /\ Len(stdout.lines) = 3

(***************************************************************************)
(* C2: every return of sendMail() carries the prefix followed by the text  *)
(* that generate() of the product made in this invocation returned; for    *)
(* WelcomeMailGenerator and NewsLetterMailGenerator these are the two      *)
(* literal messages.                                                       *)
(***************************************************************************)
C2_SendMailResult ==
  \A i \in Calls("sendMail") :
    Completed(i) =>
      LET r == trace[RetOf(i)]
          d == Direct(i)
      IN  /\ r.val.tag = "string"
          /\ Len(d) = 4
          /\ d[4].fn = "generate"
          /\ r.val.text = "Sending the following mail : " \o d[4].val.text
          /\ r.self.class = "WelcomeMailGenerator" => r.val.text = WelcomeLine
          /\ r.self.class = "NewsLetterMailGenerator" => r.val.text = NewsLetterLine

C2_Witness ==
  \E i, j \in Calls("sendMail") :
    /\ Completed(i)
    /\ Completed(j)
    /\ trace[i].self.class = "WelcomeMailGenerator"
    /\ trace[j].self.class = "NewsLetterMailGenerator"

(***************************************************************************)
(* C3: one invocation of clientCode writes exactly one thing, the result   *)
(* of sendMail() of the creator it was given, as one complete line after   *)
(* the lines that were on standard output at the call; the earlier lines   *)
(* are unchanged, and the program is back where it was called.             *)
(***************************************************************************)
C3_ClientCodeEffect ==
  \A i \in Calls("clientCode") :
    Completed(i) =>
      LET d == Direct(i)
          w == Written(i)
          before == trace[i].out
          after == trace[RetOf(i)].out
      IN  /\ Len(d) = 2
          /\ d[1].fn = "sendMail"
          /\ d[1].self = trace[i].val
          /\ Len(w) = 1
          /\ w[1].val = d[2].val
          /\ after.lines = Append(before.lines, d[2].val.text)
          /\ after.tail = ""
          /\ before.tail = ""
          /\ RetOf(i) = Len(trace) =>
               /\ stdout = after
               /\ stack = << >>
               /\ err = "none"

C3_Witness ==
  \E i \in Calls("clientCode") :
    /\ Completed(i)
    /\ trace[i].out.lines # << >>
    /\ trace[i].val.class = "NewsLetterMailGenerator"

(***************************************************************************)
(* C4 as stated: each invocation of clientCode in the entry sequence adds  *)
(* exactly two lines to standard output.                                   *)
(***************************************************************************)
C4_TwoLinesPerInvocation ==
  main = "entry" =>
    \A i \in Calls("clientCode") :
      Completed(i) =>
        Len(trace[RetOf(i)].out.lines) = Len(trace[i].out.lines) + 2

(***************************************************************************)
(* C4 amended: each invocation of clientCode in the entry sequence adds    *)
(* exactly one line to standard output; the divider is a line of its own,  *)
(* written by the entry sequence between the two invocations.              *)
(***************************************************************************)
C4_OneLinePerInvocation ==
  main = "entry" =>
    /\ \A i \in Calls("clientCode") :
         Completed(i) =>
           Len(trace[RetOf(i)].out.lines) = Len(trace[i].out.lines) + 1
    /\ Terminated =>
         Len(stdout.lines) = Cardinality(Calls("clientCode")) + 1

C4_Witness ==
  /\ main = "entry"
  /\ Terminated
  /\ Cardinality(Calls("clientCode")) = 2
  /\ \A i \in Calls("clientCode") : Completed(i)

(***************************************************************************)
(* C5: every return of generate() of a product class carries the same      *)
(* string, whatever was called before it: the welcome text for             *)
(* WelcomeMailTemplate, the newsletter text for NewsLetterMailTemplate.    *)
(***************************************************************************)
C5_GenerateFixed ==
  /\ \A i \in Calls("generate") :
       Completed(i) =>
         LET r == trace[RetOf(i)]
         IN  /\ r.val.tag = "string"
             /\ r.self.class = "WelcomeMailTemplate" =>
                  r.val.text = "Welcome aboard! Thanks for signing up!"
             /\ r.self.class = "NewsLetterMailTemplate" =>
                  r.val.text = "Please enjoy our newsletter!"
  /\ \A c \in DOMAIN classes.products :
       Cardinality({trace[k].val : k \in
                     {n \in DOMAIN trace : /\ trace[n].ev = "ret"
                                           /\ trace[n].fn = "generate"
                                           /\ trace[n].self.class = c}}) <= 1

\* generate() returned three times: directly, and within sendMail() after it
C5_Witness ==
  \E i, j, k \in Calls("generate") :
    /\ i < j
    /\ j < k
    /\ Completed(k)
    /\ trace[i].depth = 1
    /\ trace[j].depth > 1
    /\ trace[i].self.class = trace[k].self.class
    /\ trace[i].self.class # trace[j].self.class

(***************************************************************************)
(* C6: with the class table extended by new classes only, the unchanged    *)
(* sendMail returns, and the unchanged clientCode writes, the prefix plus  *)
(* the new product's text for the new creator, and for                     *)
(* WelcomeMailGenerator and NewsLetterMailGenerator what they return and   *)
(* write under the table of the source.                                    *)
(***************************************************************************)
ExpectedLine(c) ==
  CASE c = "WelcomeMailGenerator" -> WelcomeLine
    [] c = "NewsLetterMailGenerator" -> NewsLetterLine
    [] c = "GoodbyeMailGenerator" -> "Sending the following mail : Sorry to see you go!"
    [] c = "PromoMailGenerator" -> WelcomeLine

C6_OpenClosed ==
  classes # SourceClasses =>
    /\ \A i \in Calls("sendMail") :
         Completed(i) =>
           trace[RetOf(i)].val = Str(ExpectedLine(trace[i].self.class))
    /\ \A i \in Calls("clientCode") :
         Completed(i) =>
           trace[RetOf(i)].out.lines =
             Append(trace[i].out.lines, ExpectedLine(trace[i].val.class))

C6_Witness ==
  /\ classes = WithNewPair
  /\ \E i, j \in Calls("clientCode") :
       /\ Completed(i)
       /\ Completed(j)
       /\ trace[i].val.class = "GoodbyeMailGenerator"
       /\ trace[j].val.class = "WelcomeMailGenerator"

(***************************************************************************)
(* C7: any two returns of sendMail() whose factory method returned a       *)
(* product of the same class carry the same string, whichever creators     *)
(* they were called on and whatever ran in between.                        *)
(***************************************************************************)
ProductOf(i) == Direct(i)[2].val

\* the pairs (class of the product made, string returned) of the completed
\* invocations of sendMail()
SendMailOutcomes ==
  {<<ProductOf(i).class, trace[RetOf(i)].val>> :
     i \in {n \in Calls("sendMail") : Completed(n)}}

C7_DeterminedByProduct ==
  \A p, q \in SendMailOutcomes : p[1] = q[1] => p[2] = q[2]

\* two creators of different classes bound to the same product class, with
\* a line written between the two invocations
C7_Witness ==
  \E i, j \in Calls("sendMail") :
    /\ Completed(i)
    /\ Completed(j)
    /\ trace[i].self.class # trace[j].self.class
    /\ ProductOf(i).class = ProductOf(j).class
    /\ trace[i].out # trace[j].out

(***************************************************************************)
(* C8: an invocation of sendMail() makes exactly two calls, in this order: *)
(* generateMailTemplate() on its creator, then generate() on the object    *)
(* that call returned.  That object did not exist before the invocation    *)
(* and nothing holds or uses it once the invocation has returned.          *)
(***************************************************************************)
C8_SendMailCalls ==
  \A i \in Calls("sendMail") :
    LET d == Direct(i)
    IN  /\ Len(d) <= 4
        /\ Len(d) >= 1 =>
             /\ d[1].ev = "call"
             /\ d[1].fn = "generateMailTemplate"
             /\ d[1].self = trace[i].self
        /\ Len(d) >= 2 =>
             /\ d[2].ev = "ret"
             /\ d[2].val.tag = "object"
             /\ \A k \in 1..i : ~Mentions(k, d[2].val.id)
        /\ Len(d) >= 3 =>
             /\ d[3].ev = "call"
             /\ d[3].fn = "generate"
             /\ d[3].self = d[2].val
        /\ Len(d) >= 4 => d[4].ev = "ret"
        /\ Completed(i) =>
             /\ Len(d) = 4
             /\ \A k \in RetOf(i)..Len(trace) : ~Mentions(k, d[2].val.id)
             /\ ret # d[2].val
             /\ \A n \in DOMAIN stack :
                  /\ stack[n].self # d[2].val
                  /\ stack[n].mailer # d[2].val
                  /\ stack[n].mailTemplate # d[2].val

\* two completed invocations on creators of the same class
C8_Witness ==
  \E i, j \in Calls("sendMail") :
    /\ i < j
    /\ Completed(j)
    /\ trace[i].self.class = trace[j].self.class

(***************************************************************************)
(* C9: no step of sendMail(), generateMailTemplate() or generate() changes *)
(* standard output, and the lines on standard output are exactly the lines *)
(* written by clientCode and by the top-level script, in the order         *)
(* written.                                                                *)
(***************************************************************************)
WrittenBy ==
  LET IsWrite(e) == e.ev = "write"
      w == SelectSeq(trace, IsWrite)
  IN  /\ \A k \in DOMAIN w : w[k].fn \in {"clientCode", "main"}
      /\ stdout.lines = [k \in DOMAIN w |-> w[k].val.text]
      /\ stdout.tail = ""

C9_NoOutputBelowClient ==
  /\ [][(stack # << >>
          /\ Top.fn \in {"sendMail", "generateMailTemplate", "generate"})
         => stdout' = stdout]_vars
  /\ []WrittenBy

\* sendMail(), called directly, returned with lines already on standard output
C9_Witness ==
  \E i \in Calls("sendMail") :
    /\ Completed(i)
    /\ trace[i].depth = 1
    /\ trace[i].out.lines # << >>
    /\ stdout = trace[i].out

(***************************************************************************)
(* C10: no operation ends in an error, and the program runs to completion; *)
(* the entry sequence is then past its third statement.                    *)
(***************************************************************************)
C10_NoFailure ==
  /\ [](err = "none")
  /\ <>Terminated
  /\ []((main = "entry" /\ Terminated) => ip = Len(EntrySequence) + 1)

C10_Witness ==
  /\ main = "entry"
  /\ Terminated
  /\ Cardinality(Calls("generate")) = 2
  /\ Cardinality(Calls("clientCode")) = 2

====
